---- MODULE Spec2Model ----
(***************************************************************************)
(* Model of pad_etl: the idempotent upsert engine of storage/db_util.py    *)
(* (DbWrapper), the pure helpers of data/card.py (unflatten, Curve), and   *)
(* the event-bonus decoder of data/bonus.py (Bonus).                       *)
(*                                                                         *)
(* The relational store is a single table held as a multiset of rows       *)
(* (key, alt, val): key is the primary-key column, alt the alternate       *)
(* (natural) key column, val the tracked column.  SQL statements are       *)
(* records; Execute gives them their meaning.  The SqlItem methods live in *)
(* storage/sql_item.py, which is not part of the sources at hand: they are *)
(* modelled from the written description of the three identity strategies. *)
(***************************************************************************)
EXTENDS Integers, Sequences, FiniteSets, Bags, TLC

VARIABLES
    dry_run,    \* DbWrapper.dry_run
    table,      \* the target table: a bag of rows (row -> copies stored)
    autoInc,    \* the table's next AUTO_INCREMENT value
    item,       \* the SqlItem the caller holds
    calls,      \* one record per finished insert_or_update call
    raw,        \* card.py: the list handed to unflatten
    uargs,      \* card.py: arguments and input of the last unflatten call
    upc,        \* card.py: position of the BookCard-style decoding
    curve,      \* card.py: a Curve object
    cvalue,     \* card.py: the last value_at call and its result
    braw,       \* bonus.py: the raw object and server handed to Bonus(...)
    bonus       \* bonus.py: what Bonus(...) produced, <<>> before the call

vars == <<dry_run, table, autoInc, item, calls, raw, uargs, upc, curve, cvalue,
          braw, bonus>>
dbVars == <<dry_run, table, autoInc, item, calls>>
cardVars == <<raw, uargs, upc>>
curveVars == <<curve, cvalue>>
bonusVars == <<braw, bonus>>

-----------------------------------------------------------------------------
(* Bounds of the model. *)
MaxKey == 1          \* keys of the rows stored before the first call: 0..MaxKey
MaxInitRows == 2     \* rows stored before the first call
MaxCalls == 2        \* insert_or_update calls per behaviour

(* Python's None, as a key value no row and no random key can have. *)
NoneKey == -1

(* random.randrange(DRY_KEY_LOW, DRY_KEY_STOP) of insert_item. *)
DRY_KEY_LOW == -99999
DRY_KEY_STOP == -1

AltKeys == {1, 2}
Vals == {1, 2}
InitKeys == 0..MaxKey
Strategies == {"alt", "fk", "local"}

InitRows == [key : InitKeys, alt : AltKeys, val : Vals]

RECURSIVE SumCounts(_, _)
SumCounts(t, S) ==
    IF S = {} THEN 0
    ELSE LET r == CHOOSE x \in S : TRUE
         IN  t[r] + SumCounts(t, S \ {r})

TableSize(t) == SumCounts(t, DOMAIN t)

MaxOf(S) == CHOOSE x \in S : \A y \in S : y <= x

-----------------------------------------------------------------------------
(* SqlItem: the statements a record generates. *)

Sql(op, by, it) ==
    [op |-> op, by |-> by, ncols |-> 1,
     key |-> it.key, alt |-> it.alt, val |-> it.val]

key_value(it) == it.key

set_key_value(it, k) == [it EXCEPT !.key = k]

uses_alternate_key_lookup(it) == it.strategy = "alt"

uses_local_primary_key(it) == it.strategy = "local"

needs_insert(it) == it.key = NoneKey

exists_sql(it) ==
    IF uses_alternate_key_lookup(it)
    THEN Sql("select", {"alt"}, it)
    ELSE Sql("select", {"key"}, it)

needs_update_sql(it) == Sql("select", {"key", "val"}, it)

insert_sql(it) ==
    IF it.strategy = "fk"
    THEN Sql("insert", {"key"}, it)     \* the caller's key is written
    ELSE Sql("insert", {}, it)          \* the key is generated by the table

update_sql(it) == Sql("update", {"key"}, it)

-----------------------------------------------------------------------------
(* The store: what cursor.execute does with a statement. *)

Match(r, sql) ==
    /\ ("key" \in sql.by => r.key = sql.key)
    /\ ("alt" \in sql.by => r.alt = sql.alt)
    /\ ("val" \in sql.by => r.val = sql.val)

Matching(t, sql) == {r \in DOMAIN t : Match(r, sql)}

Updated(r, sql) == IF Match(r, sql) THEN [r EXCEPT !.val = sql.val] ELSE r

(* db = [rows, autoInc]; lid is what the driver reports as lastrowid for an *)
(* insert that supplies its own key.                                        *)
Execute(db, sql, lid) ==
    CASE sql.op = "select" ->
           [db |-> db,
            num_rows |-> SumCounts(db.rows, Matching(db.rows, sql)),
            data |-> Matching(db.rows, sql),
            lastrowid |-> 0]
      [] sql.op = "insert" ->
           LET k == IF "key" \in sql.by THEN sql.key ELSE db.autoInc
               r == [key |-> k, alt |-> sql.alt, val |-> sql.val]
           IN  [db |-> [rows |-> db.rows (+) SetToBag({r}),
                        autoInc |-> IF k >= db.autoInc THEN k + 1 ELSE db.autoInc],
                num_rows |-> 1,
                data |-> {},
                lastrowid |-> IF "key" \in sql.by THEN lid ELSE k]
      [] sql.op = "update" ->
           [db |-> [db EXCEPT !.rows =
                        [r \in {Updated(q, sql) : q \in DOMAIN db.rows} |->
                            SumCounts(db.rows,
                                      {q \in DOMAIN db.rows :
                                            Updated(q, sql) = r})]],
            num_rows |-> SumCounts(db.rows,
                             {q \in Matching(db.rows, sql) : q.val # sql.val}),
            data |-> {},
            lastrowid |-> 0]

-----------------------------------------------------------------------------
(* DbWrapper.  Every method returns a record: err is TRUE when it raised    *)
(* ValueError, ops lists the statements it sent to the store, in order.     *)

ReadTag(sql) == IF "val" \in sql.by THEN "read:needs_update" ELSE "read:exists"

WriteTag(sql) == IF sql.op = "insert" THEN "write:insert" ELSE "write:update"

DryTag(sql) == IF sql.op = "insert" THEN "dry:insert" ELSE "dry:update"

Reads == {"read:exists", "read:needs_update"}
Writes == {"write:insert", "write:update"}

(* op=int applied to the single column of the single row. *)
ToInt(v) == v

(* get_single_value without its check for more than one row: it answers    *)
(* with an arbitrary one of the rows matched.                               *)
get_single_value_FirstOfMany(db, sql, dry, fail_on_empty) ==
    LET e == Execute(db, sql, 0)
    IN  IF e.num_rows = 0
        THEN [err |-> ~(dry \/ ~fail_on_empty), val |-> NoneKey,
              ops |-> <<ReadTag(sql)>>]
        ELSE [err |-> sql.ncols > 1,
              val |-> ToInt((CHOOSE r \in e.data : TRUE).key),
              ops |-> <<ReadTag(sql)>>]

get_single_value(db, sql, dry, fail_on_empty) ==
    LET e == Execute(db, sql, 0)
    IN  IF e.num_rows = 0
        THEN [err |-> ~(dry \/ ~fail_on_empty), val |-> NoneKey,
              ops |-> <<ReadTag(sql)>>]
        ELSE IF e.num_rows > 1
        THEN [err |-> TRUE, val |-> NoneKey, ops |-> <<ReadTag(sql)>>]
        ELSE IF sql.ncols > 1
        THEN [err |-> TRUE, val |-> NoneKey, ops |-> <<ReadTag(sql)>>]
        ELSE [err |-> FALSE,
              val |-> ToInt((CHOOSE r \in e.data : TRUE).key),
              ops |-> <<ReadTag(sql)>>]

check_existing(db, sql) ==
    LET e == Execute(db, sql, 0)
    IN  IF e.num_rows > 1
        THEN [err |-> TRUE, val |-> FALSE, ops |-> <<ReadTag(sql)>>]
        ELSE [err |-> FALSE, val |-> e.num_rows # 0, ops |-> <<ReadTag(sql)>>]

(* insert_item without its dry-run guard: the statement is always sent. *)
insert_item_IgnoresDryRun(db, sql, dry, rnd, lid) ==
    LET e == Execute(db, sql, lid)
    IN  [db |-> e.db, err |-> Cardinality(e.data) > 0, val |-> e.lastrowid,
         ops |-> <<WriteTag(sql)>>]

(* rnd is the value random.randrange draws. *)
insert_item(db, sql, dry, rnd, lid) ==
    IF dry
    THEN [db |-> db, err |-> FALSE, val |-> rnd, ops |-> <<DryTag(sql)>>]
    ELSE LET e == Execute(db, sql, lid)
         IN  IF Cardinality(e.data) > 0
             THEN [db |-> e.db, err |-> TRUE, val |-> NoneKey,
                   ops |-> <<WriteTag(sql)>>]
             ELSE [db |-> e.db, err |-> FALSE, val |-> e.lastrowid,
                   ops |-> <<WriteTag(sql)>>]

(* Python truthiness of a key: None and 0 are false. *)
Truthy(k) == k # NoneKey /\ k # 0

Outcome(db, it, key, ops, err) ==
    [db |-> db, item |-> it, ret |-> key, ops |-> ops, err |-> err]

(* The update branch with the "not" of its condition dropped. *)
UpdateIfNeeded_NoNegation(db, it, key, ops, dry, rnd, lid) ==
    LET c == check_existing(db, needs_update_sql(it))
    IN  IF c.err
        THEN Outcome(db, it, NoneKey, ops \o c.ops, TRUE)
        ELSE IF c.val
        THEN LET w == insert_item(db, update_sql(it), dry, rnd, lid)
             IN  Outcome(w.db, it, key, ops \o c.ops \o w.ops, w.err)
        ELSE Outcome(db, it, key, ops \o c.ops, FALSE)

(* The update branch sending the update first and comparing afterwards. *)
UpdateIfNeeded_WriteFirst(db, it, key, ops, dry, rnd, lid) ==
    LET w == insert_item(db, update_sql(it), dry, rnd, lid)
        c == check_existing(w.db, needs_update_sql(it))
    IN  Outcome(w.db, it, IF c.err THEN NoneKey ELSE key,
                ops \o w.ops \o c.ops, c.err)

(* The tail shared by the three branches: run the needs-update check for   *)
(* it and send the update when the check finds no row.                      *)
UpdateIfNeeded(db, it, key, ops, dry, rnd, lid) ==
    LET c == check_existing(db, needs_update_sql(it))
    IN  IF c.err
        THEN Outcome(db, it, NoneKey, ops \o c.ops, TRUE)
        ELSE IF ~c.val
        THEN LET w == insert_item(db, update_sql(it), dry, rnd, lid)
             IN  Outcome(w.db, it, key, ops \o c.ops \o w.ops, w.err)
        ELSE Outcome(db, it, key, ops \o c.ops, FALSE)

InsertBranch(db, it, ops, dry, rnd, lid) ==
    LET w == insert_item(db, insert_sql(it), dry, rnd, lid)
    IN  Outcome(w.db, it, w.val, ops \o w.ops, w.err)

insert_or_update(db, it, dry, rnd, lid) ==
    LET key == key_value(it)
    IN  IF uses_alternate_key_lookup(it)
        THEN LET g == get_single_value(db, exists_sql(it), dry, FALSE)
                 it1 == set_key_value(it, g.val)
             IN  IF g.err
                 THEN Outcome(db, it, NoneKey, g.ops, TRUE)
                 ELSE IF ~Truthy(g.val)
                 THEN InsertBranch(db, it1, g.ops, dry, rnd, lid)
                 ELSE UpdateIfNeeded(db, it1, g.val, g.ops, dry, rnd, lid)
        ELSE IF ~uses_local_primary_key(it)
        THEN LET x == check_existing(db, exists_sql(it))
             IN  IF x.err
                 THEN Outcome(db, it, NoneKey, x.ops, TRUE)
                 ELSE IF ~x.val
                 THEN InsertBranch(db, it, x.ops, dry, rnd, lid)
                 ELSE UpdateIfNeeded(db, it, key, x.ops, dry, rnd, lid)
        ELSE IF needs_insert(it)
        THEN InsertBranch(db, it, <<>>, dry, rnd, lid)
        ELSE UpdateIfNeeded(db, it, key, <<>>, dry, rnd, lid)

-----------------------------------------------------------------------------
(* The upsert engine as a state machine. *)

(* random.randrange(lo, stop) draws from lo..stop-1; the model draws the   *)
(* two ends of that range.                                                  *)
randrange(lo, stop) == {lo, stop - 1}

(* cursor.lastrowid after an insert that supplies its own key: 0 when the  *)
(* key column is not AUTO_INCREMENT, the supplied key when it is.  The      *)
(* schema is not part of the program, so both are possible.                 *)
LastRowIds(it) ==
    IF it.strategy = "fk" THEN {0, it.key} ELSE {0}

(* The tables of at most MaxInitRows rows, duplicates of a row included. *)
InitTables ==
    {t \in UNION {[S -> 1..MaxInitRows] :
                    S \in {T \in SUBSET InitRows :
                                Cardinality(T) <= MaxInitRows}} :
        TableSize(t) <= MaxInitRows}

InitItems ==
    {it \in [strategy : Strategies, key : InitKeys \cup {NoneKey},
             alt : AltKeys, val : Vals] :
        /\ it.strategy = "alt" => it.key = NoneKey
        /\ it.strategy = "fk" => it.key # NoneKey}

NextAutoInc(t) ==
    LET used == {r.key : r \in DOMAIN t}
    IN  IF used = {} THEN 1 ELSE MaxOf(used) + 1

CardIdle ==
    /\ raw = <<>>
    /\ uargs = <<>>
    /\ upc = "idle"

CurveIdle ==
    /\ curve = <<>>
    /\ cvalue = <<>>

BonusIdle ==
    /\ braw = <<>>
    /\ bonus = <<>>

InitDb ==
    /\ dry_run \in BOOLEAN
    /\ table \in InitTables
    /\ autoInc = NextAutoInc(table)
    /\ item \in InitItems
    /\ calls = <<>>

Init ==
    /\ InitDb
    /\ CardIdle
    /\ CurveIdle
    /\ BonusIdle

(* One insert_or_update(item) call, from entry to return or raise. *)
InsertOrUpdate ==
    /\ Len(calls) < MaxCalls
    /\ \E rnd \in randrange(DRY_KEY_LOW, DRY_KEY_STOP) :
       \E lid \in LastRowIds(item) :
          LET o == insert_or_update([rows |-> table, autoInc |-> autoInc],
                                    item, dry_run, rnd, lid)
          IN  /\ table' = o.db.rows
              /\ autoInc' = o.db.autoInc
              /\ item' = o.item
              /\ calls' = Append(calls,
                                 [item |-> item, pre |-> table,
                                  post |-> o.db.rows, ops |-> o.ops,
                                  ret |-> o.ret, err |-> o.err])
    /\ UNCHANGED <<dry_run, raw, uargs, upc, curve, cvalue, bonusVars>>

(* The caller changes the tracked column of the record between two calls. *)
SetVal ==
    /\ Len(calls) < MaxCalls
    /\ Len(calls) > 0
    /\ calls[Len(calls)].item.val = item.val
    /\ \E v \in Vals \ {item.val} : item' = [item EXCEPT !.val = v]
    /\ UNCHANGED <<dry_run, table, autoInc, calls, raw, uargs, upc, curve, cvalue,
                   bonusVars>>

Next ==
    \/ InsertOrUpdate
    \/ SetVal

Spec == Init /\ [][Next]_vars

-----------------------------------------------------------------------------
(* Vocabulary of the upsert claims, over the records of the finished calls. *)

CountOps(c, S) == Cardinality({n \in 1..Len(c.ops) : c.ops[n] \in S})

Inserts(c) == CountOps(c, {"write:insert"})
Updates(c) == CountOps(c, {"write:update"})
WritesOf(c) == CountOps(c, Writes)
ReadsOf(c) == CountOps(c, Reads)

(* The rows of table t that carry the identity of record it: the rows with *)
(* its alternate key (alternate-key strategy) or with its key.              *)
IdentityRows(t, it) ==
    {r \in DOMAIN t : IF it.strategy = "alt" THEN r.alt = it.alt
                                                ELSE r.key = it.key}

IdentityCount(t, it) == SumCounts(t, IdentityRows(t, it))

(* The record as it is identified once the call has resolved its key. *)
Resolved(c) ==
    IF c.item.strategy = "local" /\ c.item.key = NoneKey
    THEN [c.item EXCEPT !.key = c.ret]
    ELSE c.item

(* The store held at most one row for the record, and a record that says it *)
(* is stored (local key set) was stored.                                    *)
ConsistentBefore(c) ==
    /\ IdentityCount(c.pre, c.item) <= 1
    /\ (c.item.strategy = "local" /\ c.item.key # NoneKey
            => IdentityCount(c.pre, c.item) = 1)

SameData(c, d) == c.item.alt = d.item.alt /\ c.item.val = d.item.val

CallIds == 1..Len(calls)

(* C1: for every strategy and every sequence of non-dry-run calls carrying  *)
(* equivalent data for one record, each call issues at most one insert and  *)
(* at most one update, and after every call the table holds exactly one row *)
(* for the record: no second row is ever created for it.                    *)
C1_OneRowPerRecord ==
    ~dry_run =>
        \A i \in CallIds :
            /\ Inserts(calls[i]) <= 1
            /\ Updates(calls[i]) <= 1
            /\ (~calls[i].err /\ ConsistentBefore(calls[i])
                    => IdentityCount(calls[i].post, Resolved(calls[i])) = 1)
            /\ \A j \in CallIds :
                    (i < j /\ SameData(calls[i], calls[j]))
                        => Inserts(calls[i]) + Inserts(calls[j]) <= 1

(* C2: local-primary-key strategy, two sequential non-dry-run calls with    *)
(* the same unchanged record whose key starts unset: one insert in total,   *)
(* no other write, and both calls return the same key.                      *)
C2_LocalKeyTwoCalls ==
    \A i \in CallIds :
        (/\ ~dry_run
         /\ i + 1 \in CallIds
         /\ calls[i].item.strategy = "local"
         /\ calls[i].item.key = NoneKey
         /\ SameData(calls[i], calls[i + 1]))
            => /\ Inserts(calls[i]) + Inserts(calls[i + 1]) = 1
               /\ WritesOf(calls[i]) + WritesOf(calls[i + 1]) = 1
               /\ calls[i].ret = calls[i + 1].ret

(* The keys of the rows of table t. *)
UsedKeys(t) == {r.key : r \in DOMAIN t}

(* C3: alternate-key strategy, not in dry-run: a call whose lookup matches  *)
(* no row performs exactly one insert and returns the newly generated key;  *)
(* a following call with the same natural key and a changed tracked column  *)
(* performs exactly one update, no insert, and returns that same key.       *)
C3_AltInsertThenUpdate ==
    \A i \in CallIds :
        (/\ ~dry_run
         /\ calls[i].item.strategy = "alt"
         /\ IdentityCount(calls[i].pre, calls[i].item) = 0)
            => /\ ~calls[i].err
               /\ Inserts(calls[i]) = 1
               /\ WritesOf(calls[i]) = 1
               /\ calls[i].ret \notin UsedKeys(calls[i].pre)
               /\ calls[i].post =
                     calls[i].pre (+)
                        SetToBag({[key |-> calls[i].ret,
                                   alt |-> calls[i].item.alt,
                                   val |-> calls[i].item.val]})
               /\ (/\ i + 1 \in CallIds
                   /\ calls[i + 1].item.alt = calls[i].item.alt
                   /\ calls[i + 1].item.val # calls[i].item.val)
                     => /\ ~calls[i + 1].err
                        /\ Updates(calls[i + 1]) = 1
                        /\ Inserts(calls[i + 1]) = 0
                        /\ calls[i + 1].ret = calls[i].ret
                        /\ calls[i + 1].post =
                              calls[i].pre (+)
                                 SetToBag({[key |-> calls[i].ret,
                                            alt |-> calls[i].item.alt,
                                            val |-> calls[i + 1].item.val]})

C3_Witness ==
    /\ ~dry_run
    /\ Len(calls) >= 2
    /\ calls[1].item.strategy = "alt"
    /\ IdentityCount(calls[1].pre, calls[1].item) = 0
    /\ TableSize(calls[1].pre) > 0
    /\ calls[2].item.val # calls[1].item.val
    /\ Updates(calls[2]) = 1
    /\ calls[2].ret = calls[1].ret

(* C4: foreign-key-existence strategy: whether the row is absent, present   *)
(* and equal, or present and different, the key returned is the key the     *)
(* caller supplied in the record.                                           *)
C4_FkReturnsCallerKey ==
    \A i \in CallIds :
        (calls[i].item.strategy = "fk" /\ ~calls[i].err)
            => calls[i].ret = calls[i].item.key

DryTags == {"dry:insert", "dry:update"}

Has(c, tag) == \E n \in 1..Len(c.ops) : c.ops[n] = tag

(* C5: in dry-run mode no call sends a write and the store stays as it     *)
(* was, while the existence and needs-update reads are still sent; the key *)
(* returned for a simulated insert is negative and below DRY_KEY_STOP, so  *)
(* it is never a key the table holds or generates.                         *)
C5_DryRunNoWrites ==
    dry_run =>
        \A i \in CallIds :
            /\ WritesOf(calls[i]) = 0
            /\ calls[i].post = calls[i].pre
            /\ table = calls[1].pre
            /\ (calls[i].item.strategy \in {"alt", "fk"}
                    => Len(calls[i].ops) >= 1 /\ calls[i].ops[1] = "read:exists")
            /\ (Has(calls[i], "dry:update") => Has(calls[i], "read:needs_update"))
            /\ ((/\ calls[i].item.strategy \in {"fk", "local"}
                 /\ calls[i].item.key # NoneKey
                 /\ IdentityCount(calls[i].pre, calls[i].item) = 1)
                    => Has(calls[i], "read:needs_update"))
            /\ (Has(calls[i], "dry:insert")
                    => /\ calls[i].ret < DRY_KEY_STOP
                       /\ calls[i].ret >= DRY_KEY_LOW
                       /\ calls[i].ret < 0
                       /\ calls[i].ret # autoInc
                       /\ calls[i].ret \notin UsedKeys(table))

C5_Witness ==
    /\ dry_run
    /\ Len(calls) >= 2
    /\ TableSize(table) > 0
    /\ calls[1].ops = <<"read:exists", "dry:insert">>
    /\ calls[1].ret = DRY_KEY_STOP - 1
    /\ calls[2].ops = <<"read:exists", "dry:insert">>
    /\ calls[2].ret = DRY_KEY_LOW

(* C6: when the existence query of a call (alternate-key lookup or         *)
(* foreign-key existence check) matches more than one row, the call raises, *)
(* sends no write, and leaves the store as it was.                          *)
C6_AmbiguityRaises ==
    \A i \in CallIds :
        (/\ calls[i].item.strategy \in {"alt", "fk"}
         /\ IdentityCount(calls[i].pre, calls[i].item) > 1)
            => /\ calls[i].err
               /\ calls[i].ops = <<"read:exists">>
               /\ calls[i].post = calls[i].pre

C6_Witness ==
    /\ ~dry_run
    /\ Len(calls) >= 1
    /\ calls[1].item.strategy = "alt"
    /\ IdentityCount(calls[1].pre, calls[1].item) = 2
    /\ calls[1].err
    /\ table = calls[1].pre

(* C7: for every strategy, when the row of the resolved identity exists    *)
(* and its tracked column equals the record's, the call sends no write; an *)
(* update is sent only when the tracked column differs.                    *)
C7_NoWriteWhenIdentical ==
    \A i \in CallIds :
        LET ids == IdentityRows(calls[i].pre, calls[i].item)
        IN  /\ (ids # {} /\ \A r \in ids : r.val = calls[i].item.val)
                  => WritesOf(calls[i]) = 0
            /\ (Updates(calls[i]) > 0 /\ ids # {})
                  => \E r \in ids : r.val # calls[i].item.val

(* One read, then at most one write. *)
ReadThenWrite(ops) ==
    /\ \A n \in 1..Len(ops) : ops[n] \in Writes \cup DryTags => n = Len(ops)
    /\ \A n \in 1..Len(ops) : ops[n] = "read:exists" => n = 1
    /\ \A n \in 1..Len(ops) : ops[n] = "read:needs_update" => n <= 2

(* C8 as claimed: every call sends exactly one read, then at most one      *)
(* write; no write before the read, no read after the write.               *)
C8_ExactlyOneRead ==
    \A i \in CallIds :
        /\ ReadsOf(calls[i]) = 1
        /\ WritesOf(calls[i]) <= 1
        /\ ReadThenWrite(calls[i].ops)

(* C8 amended: every call sends at most two reads (the existence lookup,   *)
(* then the needs-update comparison) followed by at most one write; no     *)
(* write before a read, no read after the write.  The local-key insert     *)
(* path sends no read, the alternate-key and foreign-key miss paths one,   *)
(* and a hit path that reaches the comparison one more.                    *)
C8_ReadsThenOneWrite ==
    \A i \in CallIds :
        /\ ReadsOf(calls[i]) <= 2
        /\ WritesOf(calls[i]) <= 1
        /\ CountOps(calls[i], DryTags) <= 1
        /\ ReadThenWrite(calls[i].ops)
        /\ (calls[i].item.strategy = "local" /\ calls[i].item.key = NoneKey
                => ReadsOf(calls[i]) = 0)
        /\ (calls[i].item.strategy = "local" /\ calls[i].item.key # NoneKey
                => ReadsOf(calls[i]) = 1)
        /\ (calls[i].item.strategy \in {"alt", "fk"}
                => ReadsOf(calls[i]) =
                      IF Has(calls[i], "read:needs_update") THEN 2 ELSE 1)

C8_Witness ==
    /\ ~dry_run
    /\ Len(calls) >= 1
    /\ calls[1].item.strategy = "fk"
    /\ calls[1].ops = <<"read:exists", "read:needs_update", "write:update">>

(* Inserts sent or, in dry-run mode, simulated by the call. *)
InsertsIssued(c) == CountOps(c, {"write:insert", "dry:insert"})

(* C12: alternate-key strategy: a call issues an insert exactly when the   *)
(* alternate-key lookup returned no row; whenever the lookup returned a    *)
(* row, whatever its key (key 0 included), the call issues no insert and   *)
(* returns the key of that row.                                             *)
C12_AltInsertOnlyOnMiss ==
    \A i \in CallIds :
        calls[i].item.strategy = "alt" =>
            /\ IdentityCount(calls[i].pre, calls[i].item) = 0
                  <=> InsertsIssued(calls[i]) = 1
            /\ IdentityCount(calls[i].pre, calls[i].item) >= 1
                  => InsertsIssued(calls[i]) = 0
            /\ (IdentityCount(calls[i].pre, calls[i].item) = 1 /\ ~calls[i].err)
                  => \E r \in IdentityRows(calls[i].pre, calls[i].item) :
                        calls[i].ret = r.key

-----------------------------------------------------------------------------
(* card.py: unflatten.  A slot of the card array is an integer token or a   *)
(* list of tokens; idx is the 0-based Python index, raw[idx] is raw[idx+1]  *)
(* of the sequence.  The count slots of the inputs drawn here hold          *)
(* non-negative integer tokens.                                             *)

MaxLen == 13         \* length of the card array
MaxCount == 3        \* item count stored in a count slot
MaxWidth == 3        \* slots per item
MarkerBase == 100    \* slot p of the input holds the token MarkerBase + p

Tok(n) == [kind |-> "int", v |-> n, items |-> <<>>]
Lst(q) == [kind |-> "list", v |-> 0, items |-> q]

Min2(a, b) == IF a <= b THEN a ELSE b
Max2(a, b) == IF a >= b THEN a ELSE b

(* slice(start, stop).indices(len) for start >= 0: the 0-based bounds. *)
SliceStop(stop, len) == IF stop < 0 THEN Max2(len + stop, 0) ELSE Min2(stop, len)
SliceStart(start, len) == Min2(start, len)

(* list(raw[start:stop]) *)
PySlice(q, start, stop) ==
    SubSeq(q, SliceStart(start, Len(q)) + 1, SliceStop(stop, Len(q)))

(* del raw[start:stop] *)
PyDel(q, start, stop) ==
    LET a == SliceStart(start, Len(q))
        b == SliceStop(stop, Len(q))
    IN  IF b <= a THEN q ELSE SubSeq(q, 1, a) \o SubSeq(q, b + 1, Len(q))

(* unflatten that, when replace is false, deletes the count slot together  *)
(* with the values.                                                         *)
unflatten_DeletesCountSlot(q, idx, width, replace) ==
    LET item_count == q[idx + 1].v
        data_start == idx + 1
        stop == data_start + width * item_count
    IN  IF item_count = 0 /\ replace
        THEN [q EXCEPT ![idx + 1] = Lst(<<>>)]
        ELSE IF replace
        THEN [PyDel(q, data_start, stop) EXCEPT
                    ![idx + 1] = Lst(PySlice(q, data_start, stop))]
        ELSE PyDel(q, idx, stop)

unflatten(q, idx, width, replace) ==
    LET item_count == q[idx + 1].v
        data_start == idx + 1
        flattened_item_count == width * item_count
        stop == data_start + flattened_item_count
        data == PySlice(q, data_start, stop)
        rest == PyDel(q, data_start, stop)
    IN  IF item_count = 0 /\ replace
        THEN [q EXCEPT ![idx + 1] = Lst(<<>>)]
        ELSE IF replace
        THEN [rest EXCEPT ![idx + 1] = Lst(data)]
        ELSE rest

(* The card array before decoding: distinct marker tokens, a count slot at  *)
(* idx holding c, and a second count slot right after the first segment.    *)
CardInput(n, idx, width, c, c2) ==
    [p \in 1..n |->
        IF p = idx + 1 THEN Tok(c)
        ELSE IF p = idx + 2 + c * width THEN Tok(c2)
        ELSE Tok(MarkerBase + p)]

DbIdle ==
    /\ dry_run = FALSE
    /\ table = EmptyBag
    /\ autoInc = 1
    /\ item = <<>>
    /\ calls = <<>>

InitCard ==
    /\ \E n \in 1..MaxLen, c \in 0..MaxCount, c2 \in 0..MaxCount,
          width \in 1..MaxWidth, replace \in BOOLEAN :
          \E idx \in 0..(n - 1) :
             /\ raw = CardInput(n, idx, width, c, c2)
             /\ uargs = [idx |-> idx, width |-> width, replace |-> replace,
                         before |-> raw]
    /\ upc = "start"
    /\ DbIdle
    /\ CurveIdle
    /\ BonusIdle

(* BookCard.__init__, first call: unflatten(raw, idx, width, replace). *)
UnflattenFirst ==
    /\ upc = "start"
    /\ raw' = unflatten(raw, uargs.idx, uargs.width, uargs.replace)
    /\ upc' = "first"
    /\ UNCHANGED <<uargs, dbVars, curveVars, bonusVars>>

(* BookCard.__init__, second call: the next slot is the next count slot.   *)
(* Indexing past the end of the list raises IndexError.                     *)
UnflattenSecond ==
    /\ upc = "first"
    /\ \E width \in 1..MaxWidth :
          LET idx == uargs.idx + 1
          IN  IF idx >= Len(raw)
              THEN /\ upc' = "IndexError"
                   /\ UNCHANGED <<raw, uargs>>
              ELSE /\ uargs' = [idx |-> idx, width |-> width,
                                replace |-> uargs.replace, before |-> raw]
                   /\ raw' = unflatten(raw, idx, width, uargs.replace)
                   /\ upc' = "second"
    /\ UNCHANGED <<dbVars, curveVars, bonusVars>>

NextCard ==
    \/ UnflattenFirst
    \/ UnflattenSecond

SpecCard == InitCard /\ [][NextCard]_vars

(* The last unflatten call: its input, its count and where its segment ends *)
UDone == upc \in {"first", "second"}
UCount == uargs.before[uargs.idx + 1].v
USegLen == UCount * uargs.width
USegEnd == uargs.idx + 1 + USegLen      \* sequence position of the last segment slot
UFits == USegEnd <= Len(uargs.before)

(* Fields before idx are unchanged. *)
UPrefixKept == \A p \in 1..uargs.idx : raw[p] = uargs.before[p]

(* Every field after the segment has moved down by d positions. *)
UShiftedBy(d) ==
    /\ Len(raw) = Len(uargs.before) - d
    /\ \A p \in (USegEnd + 1)..Len(uargs.before) : raw[p - d] = uargs.before[p]

(* C9 as claimed: with count c > 0, replace mode leaves c tuples of width  *)
(* elements in slot idx and moves the later fields down by c*width; delete *)
(* mode removes the count slot too and moves them down by c*width + 1.     *)
C9_TuplesAndCountSlot ==
    (UDone /\ UCount > 0 /\ UFits) =>
        /\ UPrefixKept
        /\ IF uargs.replace
           THEN /\ raw[uargs.idx + 1].kind = "list"
                /\ Len(raw[uargs.idx + 1].items) = UCount
                /\ \A k \in 1..Len(raw[uargs.idx + 1].items) :
                      /\ raw[uargs.idx + 1].items[k].kind = "list"
                      /\ Len(raw[uargs.idx + 1].items[k].items) = uargs.width
                /\ UShiftedBy(USegLen)
           ELSE UShiftedBy(USegLen + 1)

(* C9 amended: with count c > 0 and the segment present, replace mode      *)
(* leaves one flat list of the c*width segment elements in slot idx, delete *)
(* mode leaves the count slot where it is, and in both modes the later     *)
(* fields move down by exactly c*width; fields before idx are unchanged.   *)
C9_FlatListAndShift ==
    (UDone /\ UCount > 0 /\ UFits) =>
        /\ UPrefixKept
        /\ UShiftedBy(USegLen)
        /\ IF uargs.replace
           THEN raw[uargs.idx + 1] =
                    Lst(SubSeq(uargs.before, uargs.idx + 2, USegEnd))
           ELSE raw[uargs.idx + 1] = uargs.before[uargs.idx + 1]

C9_Witness ==
    /\ upc = "first"
    /\ ~uargs.replace
    /\ uargs.width = 3
    /\ UCount = 3
    /\ uargs.idx > 0
    /\ Len(uargs.before) > USegEnd + 1
    /\ Len(raw) = Len(uargs.before) - 9
    /\ raw[uargs.idx + 1] = Tok(3)

-----------------------------------------------------------------------------
(* card.py: Curve.  Values are exact rationals num/den; scale is drawn from *)
(* the natural numbers, where math.pow is repeated multiplication.          *)

MaxStat == 3         \* min_value and max_value arguments: 0..MaxStat
MaxScale == 2        \* scale argument: 0..MaxScale
MaxLevelArg == 3     \* max_level argument: -1..MaxLevelArg
MaxLevelAt == 4      \* level argument of value_at: 0..MaxLevelAt

(* An argument left at its default None. *)
NoArg == [given |-> FALSE, v |-> 0]
Arg(n) == [given |-> TRUE, v |-> n]

(* Python truthiness of max_value: None and 0 are false. *)
ArgTruthy(a) == a.given /\ a.v # 0

RECURSIVE Pow(_, _)
Pow(b, e) == IF e = 0 THEN 1 ELSE b * Pow(b, e - 1)

(* Curve.__init__ *)
Curve(min_value, max_value, scale, max_level) ==
    [min_value |-> min_value,
     max_value |-> IF ArgTruthy(max_value) THEN max_value.v
                                            ELSE min_value * max_level,
     scale |-> scale,
     max_level |-> Max2(max_level, 1)]

(* value_at with the ratio taken as 0 when max_level is 1. *)
value_at_RatioZero(cv, level) ==
    LET fnum == IF cv.max_level = 1 THEN 0 ELSE level - 1
        fden == IF cv.max_level = 1 THEN 1 ELSE cv.max_level - 1
        den == Pow(fden, cv.scale)
    IN  [err |-> fden = 0,
         num |-> cv.min_value * den
                    + (cv.max_value - cv.min_value) * Pow(fnum, cv.scale),
         den |-> den]

(* Curve.value_at: f is fnum/fden; a zero fden is ZeroDivisionError. *)
value_at(cv, level) ==
    LET fnum == IF cv.max_level = 1 THEN 1 ELSE level - 1
        fden == IF cv.max_level = 1 THEN 1 ELSE cv.max_level - 1
        den == Pow(fden, cv.scale)
    IN  [err |-> fden = 0,
         num |-> cv.min_value * den
                    + (cv.max_value - cv.min_value) * Pow(fnum, cv.scale),
         den |-> den]

InitCurve ==
    /\ \E min_value \in 0..MaxStat,
          max_value \in {NoArg} \cup {Arg(n) : n \in 0..MaxStat},
          scale \in 0..MaxScale,
          max_level \in {-1} \cup (0..MaxLevelArg) :
          curve = Curve(min_value, max_value, scale, max_level)
    /\ cvalue = <<>>
    /\ DbIdle
    /\ CardIdle
    /\ BonusIdle

(* curve.value_at(level) *)
ValueAt ==
    /\ \E level \in 0..MaxLevelAt :
          cvalue' = [level |-> level, value |-> value_at(curve, level)]
    /\ UNCHANGED <<curve, dbVars, cardVars, bonusVars>>

NextCurve == ValueAt

SpecCurve == InitCurve /\ [][NextCurve]_vars

CalledAtMaxLevelOne == cvalue # <<>> /\ curve.max_level = 1

(* C10 as claimed: a Curve with maxLevel 1 gives min at every level, with  *)
(* no division by zero.                                                     *)
C10_MaxLevelOneGivesMin ==
    CalledAtMaxLevelOne =>
        /\ ~cvalue.value.err
        /\ cvalue.value.num = curve.min_value * cvalue.value.den

(* C10 amended: a Curve with maxLevel 1 gives max at every level (the      *)
(* ratio is 1), with no division by zero; that is min exactly when max     *)
(* equals min.                                                              *)
C10_MaxLevelOneGivesMax ==
    CalledAtMaxLevelOne =>
        /\ ~cvalue.value.err
        /\ cvalue.value.den # 0
        /\ cvalue.value.num = curve.max_value * cvalue.value.den
        /\ (cvalue.value.num = curve.min_value * cvalue.value.den
                <=> curve.max_value = curve.min_value)

C10_Witness ==
    /\ CalledAtMaxLevelOne
    /\ curve.min_value = 1
    /\ curve.max_value = 3
    /\ curve.scale = 2
    /\ cvalue.level = 4
    /\ cvalue.value = [err |-> FALSE, num |-> 3, den |-> 1]

(***************************************************************************)
(* data/bonus.py: the event-bonus decoder, Bonus.__init__.                 *)
(***************************************************************************)

MaxBonusId == 44     \* category ids 0..MaxBonusId cover the whole table
MaxBonusValue == 2   \* raw bonus values are multiples of BonusValueStep

BonusValueStep == 50
UnlistedId == 999

(* Python values met by the decoder: an int n, the decimal string of n,    *)
(* and None.                                                                *)
PyInt(n) == [t |-> "int", v |-> n]
PyStr(n) == [t |-> "str", v |-> n]
None == [t |-> "None", v |-> 0]

(* int(x) of an int or of a decimal string; str(x) likewise. *)
int(x) == PyInt(x.v)
str(x) == PyStr(x.v)

(* common/pad_util.py and common/shared_types.py *)
ghmult_plain(x) == [t |-> "mult", v |-> <<x.v, 100>>]
ghchance_plain(x) == [t |-> "chance", v |-> <<x.v, 100>>]
gh_to_timestamp(time_str, server) == [t |-> "timestamp", v |-> <<time_str.v, server>>]
strip_colors(message) == [t |-> "clean", v |-> message.v]
DungeonId(x) == x
DungeonFloorId(x) == x

NoFn == "none"

Named(name, fn) == [name |-> <<name>>, mod_fn |-> fn]

(* Bonus.types *)
types ==
    (1 :> Named("Exp Boost", "ghmult_plain")) @@
    (2 :> Named("Coin Boost", "ghmult_plain")) @@
    (3 :> Named("Drop Boost", "ghmult_plain")) @@
    (5 :> Named("Stamina Reduction", "ghmult_plain")) @@
    (6 :> Named("dungeon", NoFn)) @@
    (8 :> Named("pem_event", NoFn)) @@
    (9 :> Named("rem_event", NoFn)) @@
    (10 :> Named("pem_cost", "int")) @@
    (11 :> Named("Feed Exp Bonus Chance", "ghmult_plain")) @@
    (12 :> Named("+Egg Drop Rate 1", "ghchance_plain")) @@
    (14 :> Named("gf_?", NoFn)) @@
    (16 :> Named("+Egg Drop Rate 2", "ghmult_plain")) @@
    (17 :> Named("Feed Skill-Up Chance", "ghmult_plain")) @@
    (20 :> Named("tournament_active", NoFn)) @@
    (21 :> Named("tournament_closed", NoFn)) @@
    (22 :> Named("score_announcement", NoFn)) @@
    (23 :> Named("meta?", NoFn)) @@
    (24 :> Named("gift_dungeon_with_reward", NoFn)) @@
    (25 :> Named("dungeon_special_event", NoFn)) @@
    (29 :> Named("multiplayer_announcement", NoFn)) @@
    (31 :> Named("multiplayer_dungeon_text", NoFn)) @@
    (32 :> Named("tournament_text", NoFn)) @@
    (36 :> Named("daily_dragons", NoFn)) @@
    (37 :> Named("monthly_quest_dungeon", NoFn)) @@
    (39 :> Named("dungeon_floor_text", NoFn)) @@
    (43 :> Named("monthly_quest_info", NoFn))

(* Bonus.keys, as the set of its characters *)
keys == {"s", "e", "b", "i", "a", "d", "m", "f"}

(* 'unknown_id:{}'.format(bonus_id) *)
unknown_id(bonus_id) == <<"unknown_id:", bonus_id.v>>

(* The table lookup that treats an id it does not list as the first entry  *)
(* of the table.                                                            *)
bonus_info_UnlistedAsFirst(bonus_id) ==
    IF bonus_id.v \in DOMAIN types THEN types[bonus_id.v] ELSE types[1]

(* Bonus.types.get(bonus_id, {'name': 'unknown_id:{}'.format(bonus_id)}) *)
bonus_info(bonus_id) ==
    IF bonus_id.v \in DOMAIN types
    THEN types[bonus_id.v]
    ELSE [name |-> unknown_id(bonus_id), mod_fn |-> NoFn]

(* bonus_info['mod_fn'](value) *)
mod_fn(info, value) ==
    CASE info.mod_fn = "ghmult_plain" -> ghmult_plain(value)
      [] info.mod_fn = "ghchance_plain" -> ghchance_plain(value)
      [] info.mod_fn = "int" -> int(value)

Raised(exc, arg) == [exc |-> exc, arg |-> arg, self |-> <<>>]

Optional(raw_, k, v) == IF k \in DOMAIN raw_ THEN v ELSE None

(* Bonus(raw, server): the exception raised, or the fields of self. *)
Bonus(raw_, server) ==
    IF ~(DOMAIN raw_ \subseteq keys)
    THEN Raised("ValueError", <<"Unexpected keys: ", DOMAIN raw_ \ keys>>)
    ELSE IF "s" \notin DOMAIN raw_ THEN Raised("KeyError", "s")
    ELSE IF "e" \notin DOMAIN raw_ THEN Raised("KeyError", "e")
    ELSE IF "b" \notin DOMAIN raw_ THEN Raised("KeyError", "b")
    ELSE
        LET bonus_id == int(raw_["b"])
            info == bonus_info(bonus_id)
        IN  [exc |-> "",
             arg |-> "",
             self |->
               [start_time_str |-> str(raw_["s"]),
                start_timestamp |-> gh_to_timestamp(str(raw_["s"]), server),
                end_time_str |-> str(raw_["e"]),
                end_timestamp |-> gh_to_timestamp(str(raw_["e"]), server),
                dungeon_id |-> Optional(raw_, "d", DungeonId(raw_["d"])),
                dungeon_floor_id |-> Optional(raw_, "f", DungeonFloorId(raw_["f"])),
                egg_machine_id |-> Optional(raw_, "i", int(raw_["i"])),
                message |-> Optional(raw_, "m", str(raw_["m"])),
                clean_message |-> Optional(raw_, "m", strip_colors(str(raw_["m"]))),
                bonus_value |->
                    IF "a" \in DOMAIN raw_
                    THEN IF info.mod_fn # NoFn
                         THEN mod_fn(info, raw_["a"])
                         ELSE raw_["a"]
                    ELSE None,
                bonus_name |-> info.name,
                bonus_id |-> bonus_id]]

(* Raw objects: every subset of the tags and of two keys that are no tags, *)
(* the category id as a number or as its decimal string.                   *)
OtherKeys == {"x", "z"}

BonusIds == (0..MaxBonusId) \cup {UnlistedId}

RawValues(k) ==
    CASE k = "b" -> {PyInt(n) : n \in BonusIds} \cup {PyStr(n) : n \in BonusIds}
      [] k = "a" -> {PyInt(n * BonusValueStep) : n \in 1..MaxBonusValue}
      [] k \in {"s", "i"} -> {PyStr(1)}
      [] k \in {"e", "m"} -> {PyStr(2)}
      [] OTHER -> {PyInt(1)}

RawObjects ==
    {[k \in K |-> IF k = "b" THEN b ELSE IF k = "a" THEN a
                  ELSE CHOOSE v \in RawValues(k) : TRUE] :
        K \in SUBSET (keys \cup OtherKeys),
        b \in RawValues("b"),
        a \in RawValues("a")}

InitBonus ==
    /\ \E raw_ \in RawObjects, server \in {"na", "jp"} :
          braw = [raw |-> raw_, server |-> server]
    /\ bonus = <<>>
    /\ DbIdle
    /\ CardIdle
    /\ CurveIdle

(* Bonus(raw, server) *)
Decode ==
    /\ bonus = <<>>
    /\ bonus' = Bonus(braw.raw, braw.server)
    /\ UNCHANGED <<braw, dbVars, cardVars, curveVars>>

NextBonus == Decode

SpecBonus == InitBonus /\ [][NextBonus]_vars

Decoded == bonus # <<>>

RecognizedTags == {"s", "e", "b", "i", "a", "d", "m", "f"}
RequiredTags == {"s", "e", "b"}

RawKeys == DOMAIN braw.raw

SchemaError == bonus.exc = "ValueError"

CategoryId == braw.raw["b"].v

(* C11: decoding a bonus object fails with a schema error if and only if   *)
(* the object has a key outside the tag set {s,e,b,i,a,d,m,f}, and the     *)
(* error names exactly the keys outside it; the category id never causes a *)
(* failure: an object of recognized keys (with the start, end and category *)
(* tags the format requires) decodes for every category id, and with an id *)
(* the table does not list its name is unknown_id:<id> and its value is    *)
(* the raw value.                                                           *)
C11_SchemaErrorOnlyForKeys ==
    Decoded =>
        /\ SchemaError <=> RawKeys \ RecognizedTags # {}
        /\ SchemaError =>
              bonus.arg = <<"Unexpected keys: ", RawKeys \ RecognizedTags>>
        /\ (RawKeys \subseteq RecognizedTags /\ RequiredTags \subseteq RawKeys) =>
              /\ bonus.exc = ""
              /\ bonus.self.bonus_id = PyInt(CategoryId)
              /\ CategoryId \notin DOMAIN types =>
                    /\ bonus.self.bonus_name = <<"unknown_id:", CategoryId>>
                    /\ bonus.self.bonus_value =
                          IF "a" \in RawKeys THEN braw.raw["a"] ELSE None

C11_Witness ==
    /\ Decoded
    /\ RawKeys = {"s", "e", "b", "a"}
    /\ braw.raw["b"] = PyStr(UnlistedId)
    /\ braw.raw["a"] = PyInt(BonusValueStep)
    /\ bonus.exc = ""
    /\ bonus.self.bonus_name = <<"unknown_id:", UnlistedId>>
    /\ bonus.self.bonus_id = PyInt(UnlistedId)
    /\ bonus.self.bonus_value = PyInt(BonusValueStep)

====
